---- MODULE Spec2Model ----
(***************************************************************************)
(* Country refresh service: app/services.py (CountryService),              *)
(* app/routes.py (the handlers), app/models.py (the two tables) and        *)
(* app/database.py (one transactional session per request).                *)
(*                                                                         *)
(* Text is a tuple of characters, so that SQL lower() is computed          *)
(* character by character.  Python None / SQL NULL is the empty tuple and  *)
(* an Optional number v is the one-element tuple <<v>>.                    *)
(***************************************************************************)
EXTENDS Integers, Sequences, FiniteSets, TLC

None == <<>>
Some(v) == <<v>>

Range(f) == {f[k] : k \in DOMAIN f}

(* ---------------------------- bounds ---------------------------------- *)
MaxRecords == 2      \* longest list a country fetch returns
MaxRequests == 2     \* requests of the single client
MaxOverlapped == 3   \* requests of the overlapping clients
MaxTime == 1         \* last reading of the clock, single client
MaxOverlapTime == 2  \* last reading of the clock, overlapping clients
MaxPopulation == 4   \* largest population an estimate is asked for
MaxCurrencies == 3   \* longest list of currencies of a record
MaxRanked == 7       \* Countries in the table a top list is asked of

(* ----------------------------- text ----------------------------------- *)
LowerChar(c) ==
  CASE c = "N" -> "n"
    [] c = "G" -> "g"
    [] c = "A" -> "a"
    [] c = "F" -> "f"
    [] c = "T" -> "t"
    [] c = "U" -> "u"
    [] c = "S" -> "s"
    [] c = "D" -> "d"
    [] c = "H" -> "h"
    [] c = "W" -> "w"
    [] c = "K" -> "k"
    [] OTHER -> c

\* func.lower(...) of SQL; lower(NULL) is NULL
lower(s) == [k \in 1..Len(s) |-> LowerChar(s[k])]

\* a comparison that matches every name
AnyEq(a, b) == a # None /\ b # None

\* a comparison that forgets func.lower
ExactEq(a, b) == a # None /\ b # None /\ a = b

\* func.lower(Country.name) == func.lower(name): NULL compares equal to nothing
LowerEq(a, b) == a # None /\ b # None /\ lower(a) = lower(b)

(* ------------------------ external sources ---------------------------- *)
NGN == <<"N", "G", "N">>
USD == <<"U", "S", "D">>

Nigeria ==
  [name |-> <<"N", "g">>, capital |-> Some("Abuja"), region |-> <<"A", "f">>,
   population |-> 2, currencies |-> <<[code |-> NGN]>>, flag |-> Some("ng.svg")]

NIGERIA ==
  [name |-> <<"N", "G">>, capital |-> Some("Lagos"), region |-> <<"A", "F">>,
   population |-> 4, currencies |-> <<[code |-> USD], [code |-> NGN]>>,
   flag |-> Some("NG.svg")]

Ghana ==
  [name |-> <<"G", "h">>, capital |-> Some("Accra"), region |-> <<"A", "f">>,
   population |-> 0, currencies |-> <<[code |-> NGN]>>, flag |-> None]

Togo ==
  [name |-> <<"T", "g">>, capital |-> None, region |-> None,
   population |-> 2, currencies |-> <<>>, flag |-> Some("tg.svg")]

\* a record the source sends without a name
Nameless ==
  [name |-> None, capital |-> None, region |-> None,
   population |-> 2, currencies |-> <<[code |-> None]>>, flag |-> None]

RawRecords == {Nigeria, NIGERIA, Togo, Nameless}

SeqsUpTo(S, n) == UNION {[1..k -> S] : k \in 0..n}

\* what response.json() of the country source can be
CountryFeeds == SeqsUpTo(RawRecords, MaxRecords)

\* what data.get("rates", {}) of the rate source can be
RateTables ==
  { (NGN :> 2) @@ (USD :> 1),
    (NGN :> 0) }

\* random.uniform(1000, 2000): a + (b-a)*random() rounds to b for the
\* largest random(), so both end points can be drawn
Multipliers == {1000, 1500, 2000}

(* ------------------- merge and derivation (pure) ----------------------- *)
\* the code of the last entry
extract_last_code(currencies) ==
  IF currencies = <<>> THEN None ELSE currencies[Len(currencies)].code

\* CountryService.extract_currency_code
extract_currency_code(currencies) ==
  IF currencies = <<>> THEN None ELSE currencies[1].code

\* exchange_rates.get(currency_code)
rates_get(exchange_rates, currency_code) ==
  IF currency_code \in DOMAIN exchange_rates
    THEN Some(exchange_rates[currency_code])
    ELSE None

\* the estimate without the division by the rate
gdp_undivided(population, exchange_rate, random_multiplier) ==
  IF exchange_rate = None \/ exchange_rate[1] = 0
    THEN None
    ELSE Some(population * random_multiplier)

\* CountryService.calculate_estimated_gdp, random_multiplier drawn by the caller.
\* The rate tables hold divisors of population * multiplier, so \div is exact.
calculate_estimated_gdp(population, exchange_rate, random_multiplier) ==
  IF exchange_rate = None \/ exchange_rate[1] = 0
    THEN None
    ELSE Some((population * random_multiplier) \div exchange_rate[1])

\* the value stored as computed, None included
gdp_as_computed(estimated_gdp) == estimated_gdp

\* estimated_gdp if estimated_gdp is not None else 0
gdp_or_zero(estimated_gdp) ==
  IF estimated_gdp # None THEN estimated_gdp ELSE Some(0)

\* upsert_country, lines 114-124 and the field values of lines 134-141 / 147-154
UpsertValues(country_data, exchange_rates, random_multiplier, now) ==
  LET currency_code == extract_currency_code(country_data.currencies)
      exchange_rate == IF currency_code # None
                         THEN rates_get(exchange_rates, currency_code)
                         ELSE None
      population == country_data.population
      estimated_gdp ==
        calculate_estimated_gdp(population, exchange_rate, random_multiplier)
  IN  [capital |-> country_data.capital,
       region |-> country_data.region,
       population |-> population,
       currency_code |-> currency_code,
       exchange_rate |-> exchange_rate,
       estimated_gdp |-> gdp_or_zero(estimated_gdp),
       flag_url |-> country_data.flag,
       last_refreshed_at |-> now]

\* an update branch that assigns nothing
AssignNothing(row, v) == row

\* the attributes upsert_country assigns on an existing Country
Assign(row, v) ==
  [row EXCEPT !.capital = v.capital, !.region = v.region,
              !.population = v.population, !.currency_code = v.currency_code,
              !.exchange_rate = v.exchange_rate,
              !.estimated_gdp = v.estimated_gdp, !.flag_url = v.flag_url,
              !.last_refreshed_at = v.last_refreshed_at]

\* Country(name=..., ...) of the insert branch; id stays unset (0) until the
\* row is stored
NewCountry(name, v) ==
  [id |-> 0, name |-> name, capital |-> v.capital, region |-> v.region,
   population |-> v.population, currency_code |-> v.currency_code,
   exchange_rate |-> v.exchange_rate, estimated_gdp |-> v.estimated_gdp,
   flag_url |-> v.flag_url, last_refreshed_at |-> v.last_refreshed_at]

(* ------------------- the session's transaction ------------------------- *)
\* ins: the Countries added, in order; flushed: how many of them are already
\* INSERTed; upd: id -> the values assigned to a loaded Country;
\* metaw: the pending write of the AppMetadata row.
NoTx == [ins |-> <<>>, flushed |-> 0, upd |-> <<>>, metaw |-> None]

UpdOf(tx, id) == {u \in Range(tx.upd) : u.id = id}

\* what a SELECT of the session returns: the committed rows, with the
\* session's own flushed writes applied
View(tx, rows) ==
  {IF UpdOf(tx, r.id) = {} THEN r
     ELSE Assign(r, (CHOOSE u \in UpdOf(tx, r.id) : TRUE).v) : r \in rows}
    \cup Range(tx.ins)

\* the unique index and NOT NULL of Country.name, checked on the INSERTs
\* numbered above `from`
InsertRejected(tx, rows, from) ==
  \E k \in (from + 1)..Len(tx.ins) :
     \/ tx.ins[k].name = None
     \/ \E r \in rows : r.name = tx.ins[k].name
     \/ \E j \in 1..(k - 1) : tx.ins[j].name = tx.ins[k].name

\* an UPDATE of a row that is gone matches no row
UpdateStale(tx, rows) ==
  \E u \in Range(tx.upd) : ~ \E r \in rows : r.id = u.id

\* autoflush before a SELECT: the pending INSERTs and UPDATEs are sent
FlushFails(tx, rows) ==
  InsertRejected(tx, rows, tx.flushed) \/ UpdateStale(tx, rows)

Flushed(tx) == [tx EXCEPT !.flushed = Len(tx.ins)]

\* the added rows get the next keys of the table, in the order added
Stored(tx, id) ==
  [tx EXCEPT !.ins = [k \in 1..Len(tx.ins) |-> [tx.ins[k] EXCEPT !.id = id + k - 1]]]

(* ------------------------- failure texts ------------------------------- *)
\* str(e) as the words of the text; a word is never split by a search below
CountryTimeout == <<"Timeout", "while", "fetching", "countries", "data">>
CountryUnavailable ==
  <<"Could", "not", "fetch", "data", "from", "restcountries", "API", "-", "detail">>
RateTimeout == <<"Timeout", "while", "fetching", "exchange", "rate">>
RateUnavailable ==
  <<"Could", "not", "fetch", "data", "from", "open.", "er-api", "API", "-", "detail">>
\* raised by the session: IntegrityError, StaleDataError, MultipleResultsFound
IntegrityError == <<"IntegrityError", "INSERT", "INTO", "countries">>
StaleDataError == <<"UPDATE", "statement", "on", "table", "countries">>
MultipleResultsFound == <<"Multiple", "rows", "were", "found">>
\* raised by a statement the database does not answer
OperationalError == <<"OperationalError", "server", "closed", "the", "connection">>

LowerWord(w) ==
  CASE w = "Timeout" -> "timeout"
    [] w = "Could" -> "could"
    [] w = "API" -> "api"
    [] w = "IntegrityError" -> "integrityerror"
    [] w = "INSERT" -> "insert"
    [] w = "INTO" -> "into"
    [] w = "UPDATE" -> "update"
    [] w = "Multiple" -> "multiple"
    [] w = "OperationalError" -> "operationalerror"
    [] OTHER -> w

\* error_msg.lower()
lower_msg(msg) == [k \in 1..Len(msg) |-> LowerWord(msg[k])]

\* phrase in text
Contains(text, phrase) ==
  \E k \in 0..(Len(text) - Len(phrase)) :
     \A j \in 1..Len(phrase) : text[k + j] = phrase[j]

\* refresh_countries, lines 50-55
api_name(error_msg) ==
  IF Contains(lower_msg(error_msg), <<"restcountries">>)
    THEN "restcountries API"
  ELSE IF Contains(lower_msg(error_msg), <<"exchange", "rate">>)
            \/ Contains(lower_msg(error_msg), <<"er-api">>)
    THEN "exchange rate API"
  ELSE "external API"

\* the error body sent without the error status
RefreshErrorAs200(error_msg) ==
  [status |-> 200, error |-> "External data source unavailable",
   details |-> api_name(error_msg)]

\* HTTPException of refresh_countries, lines 57-63
RefreshError(error_msg) ==
  [status |-> 503, error |-> "External data source unavailable",
   details |-> api_name(error_msg)]

\* RefreshResponse of refresh_countries, lines 37-41
RefreshOk(total, timestamp) ==
  [status |-> 200, total_countries |-> total, last_refreshed_at |-> timestamp]

(* ----------------------------- state ----------------------------------- *)
Sessions == {"s1", "s2"}

\* db: the committed rows of table countries; meta: the committed
\* last_refreshed_at of the app_metadata row with id 1 (None: no row);
\* image: what cache/summary.png holds; clock: datetime.now(UTC);
\* nextId: the next key of table countries; started: requests so far;
\* last: the session of the latest request; ses: per request session, the
\* handler's position and locals; call: one call of upsert_country on its
\* own, its arguments and the Country it returned
VARIABLES db, meta, image, clock, nextId, started, last, ses, call

vars == <<db, meta, image, clock, nextId, started, last, ses, call>>

\* op, name: the request and its path parameter; i: the record the loop is
\* at (1 + the upserts that returned); commits: how often the request has
\* committed; gets: the client.get calls it has sent to each source;
\* top_countries: the list read for the image
Idle ==
  [pc |-> "idle", op |-> "none", name |-> None, countries_data |-> <<>>,
   exchange_rates |-> None, i |-> 1, tx |-> NoTx, refresh_time |-> None,
   response |-> None, commits |-> 0, gets |-> [countries |-> 0, rates |-> 0],
   top_countries |-> <<>>]

Init ==
  /\ db = {}
  /\ meta = None
  /\ image = None
  /\ clock = 0
  /\ nextId = 1
  /\ started = 0
  /\ last = "s1"
  /\ ses = [s \in Sessions |-> Idle]
  /\ call = None

\* a request enters its handler with a fresh session (get_session)
Begin(op) == [Idle EXCEPT !.op = op]

\* the handler ends: the session is closed (whatever is not committed is
\* rolled back) and the response goes out; what the request was and how far
\* it came stays on record
Return(cur, response) ==
  [Idle EXCEPT !.op = cur.op, !.name = cur.name, !.i = cur.i,
               !.countries_data = cur.countries_data,
               !.response = response, !.commits = cur.commits,
               !.gets = cur.gets]

(* ------------------------ POST /countries/refresh ---------------------- *)
\* fetch_countries_data returns
FetchCountriesOk(s, feeds, limit) ==
  /\ ses[s].pc = "idle"
  /\ started < limit
  /\ \E feed \in feeds :
       ses' = [ses EXCEPT ![s] =
                 [Begin("refresh") EXCEPT !.pc = "fetch_rates",
                                          !.countries_data = feed,
                                          !.gets.countries = 1]]
  /\ started' = started + 1
  /\ last' = s
  /\ UNCHANGED <<db, meta, image, clock, nextId, call>>

\* both sources asked at once: the country fetch raises with the
\* exchange-rate request already sent
FetchCountriesFailBesideRates(s, limit) ==
  /\ ses[s].pc = "idle"
  /\ started < limit
  /\ \E e \in {CountryTimeout, CountryUnavailable} :
       ses' = [ses EXCEPT ![s] =
                 Return([Begin("refresh") EXCEPT !.gets.countries = 1,
                                                 !.gets.rates = 1],
                        RefreshError(e))]
  /\ started' = started + 1
  /\ last' = s
  /\ UNCHANGED <<db, meta, image, clock, nextId, call>>

\* fetch_countries_data raises
FetchCountriesFail(s, limit) ==
  /\ ses[s].pc = "idle"
  /\ started < limit
  /\ \E e \in {CountryTimeout, CountryUnavailable} :
       ses' = [ses EXCEPT ![s] =
                 Return([Begin("refresh") EXCEPT !.gets.countries = 1],
                        RefreshError(e))]
  /\ started' = started + 1
  /\ last' = s
  /\ UNCHANGED <<db, meta, image, clock, nextId, call>>

\* fetch_exchange_rate returns
FetchRatesOk(s, tables) ==
  /\ ses[s].pc = "fetch_rates"
  /\ \E rates \in tables :
       ses' = [ses EXCEPT ![s].pc = "upsert", ![s].exchange_rates = rates,
                          ![s].gets.rates = ses[s].gets.rates + 1]
  /\ UNCHANGED <<db, meta, image, clock, nextId, started, last, call>>

\* fetch_exchange_rate raises
FetchRatesFail(s) ==
  /\ ses[s].pc = "fetch_rates"
  /\ \E e \in {RateTimeout, RateUnavailable} :
       ses' = [ses EXCEPT ![s] =
                 Return([ses[s] EXCEPT !.gets.rates = ses[s].gets.rates + 1],
                        RefreshError(e))]
  /\ UNCHANGED <<db, meta, image, clock, nextId, started, last, call>>

\* the error a failed flush raises
FlushError(tx, rows) ==
  IF InsertRejected(tx, rows, tx.flushed) THEN IntegrityError ELSE StaleDataError

\* an upsert that adds a Country whether or not one matches
upsert_always_adding(tx, rows, country_data, exchange_rates, random_multiplier, now) ==
  [error |-> None,
   tx |-> [Flushed(tx) EXCEPT !.ins =
             Append(tx.ins,
                    NewCountry(country_data.name,
                               UpsertValues(country_data, exchange_rates,
                                            random_multiplier, now)))]]

\* upsert_country on the session's transaction: lines 114-124 compute the
\* values, the SELECT of 128-130 flushes first, then 132-157 assign or add.
\* Gives the error raised (None if none) and the transaction afterwards.
upsert_country(tx, rows, country_data, exchange_rates, random_multiplier, now) ==
  LET v == UpsertValues(country_data, exchange_rates, random_multiplier, now)
      name == country_data.name
      tx1 == Flushed(tx)
      matches == {r \in View(tx1, rows) : LowerEq(r.name, name)}
  IN  IF FlushFails(tx, rows)
        THEN [error |-> FlushError(tx, rows), tx |-> tx]
      ELSE IF Cardinality(matches) > 1
        THEN [error |-> MultipleResultsFound, tx |-> tx1]
      ELSE IF matches # {}
        THEN LET existing_country == CHOOSE r \in matches : TRUE
                 own == {k \in 1..Len(tx1.ins) : tx1.ins[k] = existing_country}
             IN  [error |-> None,
                  tx |-> IF own # {}
                           THEN [tx1 EXCEPT !.ins =
                                   [k \in 1..Len(tx1.ins) |->
                                      IF k \in own THEN Assign(tx1.ins[k], v)
                                                   ELSE tx1.ins[k]]]
                           ELSE [tx1 EXCEPT !.upd =
                                   SelectSeq(tx1.upd,
                                             LAMBDA u : u.id # existing_country.id)
                                     \o <<[id |-> existing_country.id, v |-> v]>>]]
      ELSE [error |-> None,
            tx |-> [tx1 EXCEPT !.ins = Append(tx1.ins, NewCountry(name, v))]]

\* an upsert that commits its own write
UpsertCommitting(s, multipliers) ==
  /\ ses[s].pc = "upsert"
  /\ ses[s].i <= Len(ses[s].countries_data)
  /\ \E random_multiplier \in multipliers :
       LET cur == ses[s]
           res == upsert_country(cur.tx, db, cur.countries_data[cur.i],
                                 cur.exchange_rates, random_multiplier, clock)
       IN  IF res.error # None
             THEN /\ ses' = [ses EXCEPT ![s] = Return(cur, RefreshError(res.error))]
                  /\ UNCHANGED <<db, nextId>>
             ELSE /\ db' = View(Stored(res.tx, nextId), db)
                  /\ nextId' = nextId + Len(res.tx.ins)
                  /\ ses' = [ses EXCEPT ![s].i = cur.i + 1]
  /\ UNCHANGED <<meta, image, clock, started, last, call>>

\* one turn of the loop of refresh_all_countries, lines 178-179
Upsert(s, multipliers) ==
  /\ ses[s].pc = "upsert"
  /\ ses[s].i <= Len(ses[s].countries_data)
  /\ \E random_multiplier \in multipliers :
       LET cur == ses[s]
           res == upsert_country(cur.tx, db, cur.countries_data[cur.i],
                                 cur.exchange_rates, random_multiplier, clock)
       IN  ses' = [ses EXCEPT ![s] =
                     IF res.error # None
                       THEN Return(cur, RefreshError(res.error))
                       ELSE [cur EXCEPT !.tx = res.tx, !.i = cur.i + 1]]
  /\ UNCHANGED <<db, meta, image, clock, nextId, started, last, call>>

\* an update of the metadata that writes nothing
update_nothing(tx, committed_meta, refresh_time) == [error |-> None, tx |-> tx]

\* update_app_metadata: the SELECT flushes, then the row is assigned or added
update_app_metadata(tx, committed_meta, refresh_time) ==
  IF FlushFails(tx, db)
    THEN [error |-> FlushError(tx, db), tx |-> tx]
    ELSE [error |-> None,
          tx |-> [Flushed(tx) EXCEPT !.metaw =
                    Some([op |-> IF committed_meta # None \/ tx.metaw # None
                                   THEN "update" ELSE "insert",
                          at |-> refresh_time])]]

\* refresh_all_countries, lines 181-183, once the loop is over
UpdateMetadata(s) ==
  /\ ses[s].pc = "upsert"
  /\ ses[s].i > Len(ses[s].countries_data)
  /\ LET cur == ses[s]
         res == update_app_metadata(cur.tx, meta, clock)
     IN  ses' = [ses EXCEPT ![s] =
                   IF res.error # None
                     THEN Return(cur, RefreshError(res.error))
                     ELSE [cur EXCEPT !.tx = res.tx, !.pc = "commit",
                                      !.refresh_time = Some(clock)]]
  /\ UNCHANGED <<db, meta, image, clock, nextId, started, last, call>>

\* session.commit(): everything pending is flushed and the constraints hold
\* against what is committed by now, or the commit raises
CommitFails(tx, rows, committed_meta) ==
  \/ InsertRejected(tx, rows, 0)
  \/ UpdateStale(tx, rows)
  \/ (tx.metaw # None /\ tx.metaw[1].op = "insert" /\ committed_meta # None)

CommitError(tx, rows) ==
  IF UpdateStale(tx, rows) /\ ~ InsertRejected(tx, rows, 0)
    THEN StaleDataError ELSE IntegrityError

\* a commit with the image drawn just before it
CommitDrawingFirst(s) ==
  /\ ses[s].pc = "commit"
  /\ LET cur == ses[s]
     IN  /\ image' = Some([total_countries |-> Len(cur.countries_data), top |-> <<>>,
                         last_refreshed |-> cur.refresh_time[1]])
         /\ IF CommitFails(cur.tx, db, meta)
              THEN /\ ses' = [ses EXCEPT ![s] =
                                Return(cur, RefreshError(CommitError(cur.tx, db)))]
                   /\ UNCHANGED <<db, meta, nextId>>
              ELSE /\ db' = View(Stored(cur.tx, nextId), db)
                   /\ nextId' = nextId + Len(cur.tx.ins)
                   /\ meta' = Some(cur.tx.metaw[1].at)
                   /\ ses' = [ses EXCEPT ![s].pc = "top", ![s].tx = NoTx,
                                         ![s].commits = cur.commits + 1]
  /\ UNCHANGED <<clock, started, last, call>>

\* refresh_all_countries, line 186
Commit(s) ==
  /\ ses[s].pc = "commit"
  /\ LET cur == ses[s]
     IN  IF CommitFails(cur.tx, db, meta)
           THEN /\ ses' = [ses EXCEPT ![s] =
                             Return(cur, RefreshError(CommitError(cur.tx, db)))]
                /\ UNCHANGED <<db, meta, nextId>>
           ELSE /\ db' = View(Stored(cur.tx, nextId), db)
                /\ nextId' = nextId + Len(cur.tx.ins)
                /\ meta' = IF cur.tx.metaw # None
                             THEN Some(cur.tx.metaw[1].at) ELSE meta
                /\ ses' = [ses EXCEPT ![s].pc = "top", ![s].tx = NoTx,
                                      ![s].commits = cur.commits + 1]
  /\ UNCHANGED <<image, clock, started, last, call>>

TopLimit == 5

\* ORDER BY estimated_gdp DESC LIMIT limit: the order of equal values is the
\* store's choice
IsTop(list, rows, limit) ==
  /\ Len(list) = IF Cardinality(rows) < limit THEN Cardinality(rows) ELSE limit
  /\ \A k \in 1..Len(list) : list[k] \in rows
  /\ \A j, k \in 1..Len(list) : j < k => list[j] # list[k]
  /\ \A j, k \in 1..Len(list) :
        j < k => list[j].estimated_gdp[1] >= list[k].estimated_gdp[1]
  /\ \A r \in rows \ Range(list) :
        \A k \in 1..Len(list) : list[k].estimated_gdp[1] >= r.estimated_gdp[1]

\* a query with the LIMIT but without the ORDER BY
get_first_countries(rows, limit) ==
  {list \in SeqsUpTo(rows, limit) :
     /\ Len(list) = IF Cardinality(rows) < limit THEN Cardinality(rows) ELSE limit
     /\ \A j, k \in 1..Len(list) : j < k => list[j] # list[k]}

\* get_top_countries_by_gdp
get_top_countries_by_gdp(rows, limit) ==
  {list \in SeqsUpTo(rows, limit) : IsTop(list, rows, limit)}

\* what generate_summary_image draws
Drawn(total_countries, top_countries, last_refreshed) ==
  Some([total_countries |-> total_countries,
        top |-> [k \in 1..Len(top_countries) |->
                   [name |-> top_countries[k].name,
                    estimated_gdp |-> top_countries[k].estimated_gdp]],
        last_refreshed |-> last_refreshed])

\* an answer that counts the persisted Countries
FinishCountingRows(written, total, refresh_time) ==
  RefreshOk(Cardinality(db), refresh_time)

\* an image failure that reaches the handler
FinishRaising(written, total, refresh_time) ==
  IF written THEN RefreshOk(total, refresh_time)
             ELSE RefreshError(<<"cannot", "write", "image">>)

\* what refresh_all_countries hands back whether or not the image was written
\* (the except of lines 198-200 swallows the failure), as the handler answers it
FinishResponse(written, total, refresh_time) == RefreshOk(total, refresh_time)

\* refresh_all_countries, line 189: the query after the commit returns
TopCountries(s) ==
  /\ ses[s].pc = "top"
  /\ \E top \in get_top_countries_by_gdp(db, TopLimit) :
       ses' = [ses EXCEPT ![s].pc = "image", ![s].top_countries = top]
  /\ UNCHANGED <<db, meta, image, clock, nextId, started, last, call>>

\* line 189 stands outside the try of lines 192-200: when the database does
\* not answer the query, the exception leaves refresh_all_countries. (The
\* same failure of a statement before the commit ends the cycle as the
\* failures of a flush do.)
TopCountriesFails(s) ==
  /\ ses[s].pc = "top"
  /\ ses' = [ses EXCEPT ![s] = Return(ses[s], RefreshError(OperationalError))]
  /\ UNCHANGED <<db, meta, image, clock, nextId, started, last, call>>

\* refresh_all_countries, lines 191-202, and the response of the handler;
\* generate_summary_image either writes the file or raises
Finish(s) ==
  /\ ses[s].pc = "image"
  /\ \E written \in BOOLEAN :
       LET cur == ses[s]
           total == Len(cur.countries_data)
           top == cur.top_countries
       IN  /\ image' = IF written
                         THEN Drawn(total, top, cur.refresh_time[1])
                         ELSE image
           /\ ses' = [ses EXCEPT ![s] =
                        Return(cur, FinishResponse(written, total,
                                                   cur.refresh_time[1]))]
  /\ UNCHANGED <<db, meta, clock, nextId, started, last, call>>

(* ----------------------- DELETE /countries/{name} ---------------------- *)
\* names a caller asks for
QueryNames == {<<"n", "g">>, <<"G", "H">>, <<"W", "k">>}

\* a SELECT without its WHERE
get_any_country(rows, name) == rows

\* get_country_by_name: the rows the SELECT matches
get_country_by_name(rows, name) == {r \in rows : LowerEq(r.name, name)}

\* delete_country_by_name and the handler delete_country, in one transaction
Delete(s, limit) ==
  /\ ses[s].pc = "idle"
  /\ started < limit
  /\ \E name \in QueryNames :
       LET found == get_country_by_name(db, name)
           cur == [Begin("delete") EXCEPT !.name = name]
       IN  IF Cardinality(found) > 1
             THEN /\ ses' = [ses EXCEPT ![s] =
                               [cur EXCEPT !.response =
                                  [status |-> 500, error |-> "Internal server error"]]]
                  /\ db' = db
           ELSE IF found # {}
             THEN /\ ses' = [ses EXCEPT ![s] =
                               [cur EXCEPT !.response = [status |-> 204],
                                           !.commits = 1]]
                  /\ db' = db \ found
           ELSE /\ ses' = [ses EXCEPT ![s] =
                             [cur EXCEPT !.response =
                                [status |-> 404, error |-> "Country not found"]]]
                /\ db' = db
  /\ started' = started + 1
  /\ last' = s
  /\ UNCHANGED <<meta, image, clock, nextId, call>>

(* ------------------------------ GET /status ---------------------------- *)
\* get_total_countries: SELECT count(id)
get_total_countries(rows) == Cardinality(rows)

\* get_app_metadata and line 223 of get_status: the last_refreshed_at of the
\* row with id 1, None when there is no row
get_app_metadata(committed_meta) == committed_meta

\* the handler get_status; its two SELECTs read what is committed
Status(s, limit) ==
  /\ ses[s].pc = "idle"
  /\ started < limit
  /\ ses' = [ses EXCEPT ![s] =
               [Begin("status") EXCEPT !.response =
                  [status |-> 200,
                   total_countries |-> get_total_countries(db),
                   last_refreshed_at |-> get_app_metadata(meta)]]]
  /\ started' = started + 1
  /\ last' = s
  /\ UNCHANGED <<db, meta, image, clock, nextId, call>>

(* ------------------------------ GET /countries ------------------------- *)
\* "if region:" / "if currency:": the parameter is there and not empty
Given(param) == param # None /\ param[1] # <<>>

\* the rows the WHERE clauses of lines 243-247 keep
Filtered(rows, region, currency) ==
  {r \in rows :
     /\ Given(region) => LowerEq(r.region, region[1])
     /\ Given(currency) => LowerEq(r.currency_code, currency[1])}

\* the ORDER BY of lines 250-257; any other sort orders nothing
Ordered(list, sort) ==
  \A j, k \in 1..Len(list) :
    j < k =>
      CASE sort = Some("gdp_desc") ->
             list[j].estimated_gdp[1] >= list[k].estimated_gdp[1]
        [] sort = Some("gdp_asc") ->
             list[j].estimated_gdp[1] <= list[k].estimated_gdp[1]
        [] sort = Some("population_desc") -> list[j].population >= list[k].population
        [] sort = Some("population_asc") -> list[j].population <= list[k].population
        [] OTHER -> TRUE

\* the rows in every order a SELECT may give them
Listings(rows) ==
  {list \in [1..Cardinality(rows) -> rows] : Range(list) = rows}

\* a listing that leaves out the ORDER BY
get_countries_unsorted(rows, region, currency, sort) ==
  Listings(Filtered(rows, region, currency))

\* get_countries_with_filters: the lists the SELECT may return
get_countries_with_filters(rows, region, currency, sort) ==
  {list \in Listings(Filtered(rows, region, currency)) : Ordered(list, sort)}

\* Countries a listing is asked over
Listed1 ==
  [id |-> 1, name |-> <<"N", "g">>, capital |-> Some("Abuja"),
   region |-> <<"A", "f">>, population |-> 5, currency_code |-> NGN,
   exchange_rate |-> Some(2), estimated_gdp |-> Some(2500),
   flag_url |-> Some("ng.svg"), last_refreshed_at |-> 0]

Listed2 ==
  [id |-> 2, name |-> <<"G", "h">>, capital |-> Some("Accra"),
   region |-> <<"A", "F">>, population |-> 50, currency_code |-> USD,
   exchange_rate |-> Some(1), estimated_gdp |-> Some(50000),
   flag_url |-> None, last_refreshed_at |-> 0]

Listed3 ==
  [id |-> 3, name |-> <<"T", "g">>, capital |-> None,
   region |-> None, population |-> 1, currency_code |-> None,
   exchange_rate |-> None, estimated_gdp |-> Some(0),
   flag_url |-> Some("tg.svg"), last_refreshed_at |-> 0]

Listed4 ==
  [id |-> 4, name |-> <<"U", "S">>, capital |-> None,
   region |-> <<"U", "S">>, population |-> 5, currency_code |-> USD,
   exchange_rate |-> Some(1), estimated_gdp |-> Some(5000),
   flag_url |-> None, last_refreshed_at |-> 0]

\* the query parameters: left out, empty, or a text in a case of its own
ListArgs ==
  [rows : SUBSET {Listed1, Listed2, Listed3, Listed4},
   region : {None, Some(<<>>), Some(<<"a", "F">>)},
   currency : {None, Some(<<>>), Some(<<"u", "s", "d">>)},
   sort : {None, Some("gdp_desc"), Some("gdp_asc"), Some("population_desc"),
           Some("population_asc"), Some("name")}]

InitList ==
  /\ db = {}
  /\ meta = None
  /\ image = None
  /\ clock = 0
  /\ nextId = 1
  /\ started = 0
  /\ last = "s1"
  /\ ses = [s \in Sessions |-> Idle]
  /\ \E a \in ListArgs : call = [arg |-> a, result |-> None]

CallList ==
  /\ call.result = None
  /\ LET a == call.arg
     IN  \E countries \in get_countries_with_filters(a.rows, a.region,
                                                     a.currency, a.sort) :
           call' = [call EXCEPT !.result = Some(countries)]
  /\ UNCHANGED <<db, meta, image, clock, nextId, started, last, ses>>

SpecList == InitList /\ [][CallList]_vars

(* ------------------------------ time ----------------------------------- *)
Tick(limit) ==
  /\ clock < limit
  /\ clock' = clock + 1
  /\ UNCHANGED <<db, meta, image, nextId, started, last, ses, call>>

(* ------------------------- specifications ------------------------------ *)
\* one client: each request ends before the next begins
Next ==
  \/ Tick(MaxTime)
  \/ FetchCountriesOk("s1", CountryFeeds, MaxRequests)
  \/ FetchCountriesFail("s1", MaxRequests)
  \/ FetchRatesOk("s1", RateTables)
  \/ FetchRatesFail("s1")
  \/ Upsert("s1", Multipliers)
  \/ UpdateMetadata("s1")
  \/ Commit("s1")
  \/ TopCountries("s1")
  \/ TopCountriesFails("s1")
  \/ Finish("s1")
  \/ Delete("s1", MaxRequests)

Spec == Init /\ [][Next]_vars

\* the sources as the overlapping clients see them: one country under either
\* spelling of its name, one rate table, one draw
OverlapFeeds == SeqsUpTo({Nigeria, NIGERIA}, 1)
OverlapTables == {(NGN :> 2) @@ (USD :> 1)}
OverlapMultipliers == {1000}

\* requests of several clients, interleaved
NextConcurrent ==
  \/ Tick(MaxOverlapTime)
  \/ \E s \in Sessions :
       \/ FetchCountriesOk(s, OverlapFeeds, MaxOverlapped)
       \/ FetchCountriesFail(s, MaxOverlapped)
       \/ FetchRatesOk(s, OverlapTables)
       \/ FetchRatesFail(s)
       \/ Upsert(s, OverlapMultipliers)
       \/ UpdateMetadata(s)
       \/ Commit(s)
       \/ TopCountries(s)
       \/ TopCountriesFails(s)
       \/ Finish(s)
       \/ Delete(s, MaxOverlapped)
       \/ Status(s, MaxOverlapped)

SpecConcurrent == Init /\ [][NextConcurrent]_vars

(* ------------------ upsert_country called on its own -------------------- *)
\* a Country stored by an earlier cycle
OldNigeria ==
  [id |-> 1, name |-> <<"N", "G">>, capital |-> Some("Lagos"),
   region |-> <<"A", "F">>, population |-> 4, currency_code |-> USD,
   exchange_rate |-> Some(1), estimated_gdp |-> Some(6000),
   flag_url |-> Some("NG.svg"), last_refreshed_at |-> 0]

UpsertArgs ==
  [country_data : RawRecords \cup {Ghana},
   exchange_rates : RateTables \cup {[c \in {} |-> 0], (USD :> 2)},
   random_multiplier : Multipliers,
   rows : {{}, {OldNigeria}}]

\* the Country upsert_country returns: the one it added or the one it assigned
Returned(tx, rows) ==
  IF tx.ins # <<>>
    THEN tx.ins[Len(tx.ins)]
    ELSE CHOOSE r \in View(tx, rows) : r.id = tx.upd[Len(tx.upd)].id

\* entity: the Country the call returned; after: the Countries the session
\* holds after it
InitUpsert ==
  /\ db = {}
  /\ meta = None
  /\ image = None
  /\ clock = 1
  /\ nextId = 1
  /\ started = 0
  /\ last = "s1"
  /\ ses = [s \in Sessions |-> Idle]
  /\ \E a \in UpsertArgs : call = [arg |-> a, entity |-> None, after |-> None]

CallUpsert ==
  /\ call.entity = None
  /\ LET a == call.arg
         res == upsert_country(NoTx, a.rows, a.country_data, a.exchange_rates,
                               a.random_multiplier, clock)
     IN  call' = [call EXCEPT !.entity = Some(Returned(res.tx, a.rows)),
                              !.after = Some(View(res.tx, a.rows))]
  /\ UNCHANGED <<db, meta, image, clock, nextId, started, last, ses>>

SpecUpsert == InitUpsert /\ [][CallUpsert]_vars
(* ------------- calculate_estimated_gdp called on its own --------------- *)
\* populations up to MaxPopulation; no rate, a zero rate, rates that divide
\* every population * multiplier drawn, and a rate below zero
GdpArgs ==
  [population : 0..MaxPopulation,
   exchange_rate : {None} \cup {Some(r) : r \in {-1, 0, 1, 2, 4}},
   random_multiplier : Multipliers]

InitGdp ==
  /\ db = {}
  /\ meta = None
  /\ image = None
  /\ clock = 0
  /\ nextId = 1
  /\ started = 0
  /\ last = "s1"
  /\ ses = [s \in Sessions |-> Idle]
  /\ \E a \in GdpArgs : call = [arg |-> a, result |-> None]

CallGdp ==
  /\ call.result = None
  /\ LET a == call.arg
     IN  call' = [call EXCEPT !.result =
                    Some(calculate_estimated_gdp(a.population, a.exchange_rate,
                                                 a.random_multiplier))]
  /\ UNCHANGED <<db, meta, image, clock, nextId, started, last, ses>>

SpecGdp == InitGdp /\ [][CallGdp]_vars

(* -------------- extract_currency_code called on its own ---------------- *)
GHS == <<"G", "H", "S">>

\* the "currencies" lists of the country records, up to MaxCurrencies
\* entries; an entry without "code" reads as None
CurrencyLists == SeqsUpTo({[code |-> c] : c \in {NGN, USD, GHS, None}}, MaxCurrencies)

InitCode ==
  /\ db = {}
  /\ meta = None
  /\ image = None
  /\ clock = 0
  /\ nextId = 1
  /\ started = 0
  /\ last = "s1"
  /\ ses = [s \in Sessions |-> Idle]
  /\ \E currencies \in CurrencyLists : call = [arg |-> currencies, result |-> None]

CallCode ==
  /\ call.result = None
  /\ call' = [call EXCEPT !.result = Some(extract_currency_code(call.arg))]
  /\ UNCHANGED <<db, meta, image, clock, nextId, started, last, ses>>

SpecCode == InitCode /\ [][CallCode]_vars

(* ------------- get_top_countries_by_gdp called on its own -------------- *)
\* Country number k of a table of up to MaxRanked Countries; the estimates
\* 7500, 5000, 2500, 0 repeat, so that some are equal
Ranked(k) ==
  [id |-> k, name |-> [j \in 1..k |-> "T"], capital |-> None, region |-> None,
   population |-> k, currency_code |-> NGN, exchange_rate |-> Some(2),
   estimated_gdp |-> Some(((k * 3) % 4) * 2500), flag_url |-> None,
   last_refreshed_at |-> 0]

InitTop ==
  /\ db = {}
  /\ meta = None
  /\ image = None
  /\ clock = 0
  /\ nextId = 1
  /\ started = 0
  /\ last = "s1"
  /\ ses = [s \in Sessions |-> Idle]
  /\ \E rows \in SUBSET {Ranked(k) : k \in 1..MaxRanked} :
       call = [arg |-> rows, result |-> None]

CallTop ==
  /\ call.result = None
  /\ \E top_countries \in get_top_countries_by_gdp(call.arg, TopLimit) :
       call' = [call EXCEPT !.result = Some(top_countries)]
  /\ UNCHANGED <<db, meta, image, clock, nextId, started, last, ses>>

SpecTop == InitTop /\ [][CallTop]_vars

(* ============================ the claims =============================== *)
\* two names are the same name when they differ at most in the case of
\* their letters
Fold(c) ==
  IF c \in {"N", "n"} THEN "n"
  ELSE IF c \in {"G", "g"} THEN "g"
  ELSE IF c \in {"T", "t"} THEN "t"
  ELSE IF c \in {"H", "h"} THEN "h"
  ELSE IF c \in {"W", "w"} THEN "w"
  ELSE IF c \in {"K", "k"} THEN "k"
  ELSE c

SameName(a, b) ==
  /\ a # None
  /\ b # None
  /\ Len(a) = Len(b)
  /\ \A k \in 1..Len(a) : Fold(a[k]) = Fold(b[k])

Named(rows, name) == {r \in rows : SameName(r.name, name)}

\* the last record of the list that carries the name of record k
LastOfName(list, k) ==
  CHOOSE j \in k..Len(list) :
    /\ SameName(list[j].name, list[k].name)
    /\ \A m \in (j + 1)..Len(list) : ~ SameName(list[m].name, list[k].name)

\* the seven fields of the row are the ones upsert derives from the record
DerivedFrom(row, rec, rates) ==
  \E u \in Multipliers :
    LET v == UpsertValues(rec, rates, u, 0)
    IN  /\ row.capital = v.capital
        /\ row.region = v.region
        /\ row.population = v.population
        /\ row.currency_code = v.currency_code
        /\ row.exchange_rate = v.exchange_rate
        /\ row.estimated_gdp = v.estimated_gdp
        /\ row.flag_url = v.flag_url

\* C1: once a cycle of the single client has committed, every name it
\* fetched is carried by exactly one persisted Country, whether the Country
\* was created by an earlier cycle or by an earlier record of this cycle, and
\* its fields are those derived from the last record fetched under that name.
C1_LastWriteWins ==
  \A s \in Sessions :
    ses[s].pc = "top" =>
      \A k \in 1..Len(ses[s].countries_data) :
        LET list == ses[s].countries_data
            hit == Named(db, list[k].name)
        IN  /\ Cardinality(hit) = 1
            /\ \A r \in hit :
                 DerivedFrom(r, list[LastOfName(list, k)], ses[s].exchange_rates)

\* C1 witness: the second cycle fetched "Ng" then "NG" and committed; the
\* only Country is the one the first cycle stored as "NG", now with the
\* fields of the second record.
C1_Witness ==
  /\ started = 2
  /\ ses["s1"].pc = "top"
  /\ ses["s1"].countries_data = <<Nigeria, NIGERIA>>
  /\ Cardinality(db) = 1
  /\ \E r \in db : /\ r.name = <<"N", "G">>
                   /\ r.id = 1
                   /\ r.capital = Some("Lagos")
                   /\ r.currency_code = USD

\* C2: once no cycle is running, no two persisted Countries carry the same
\* name ignoring case.
C2_OneEntityPerName ==
  (\A s \in Sessions : ses[s].pc = "idle") =>
    \A r1, r2 \in db : SameName(r1.name, r2.name) => r1 = r2
\* steps of the handlers, read off one step of the system
RefreshBegins(s) ==
  started' = started + 1 /\ last' = s /\ ses'[s].op = "refresh"

DeleteRuns(s) ==
  started' = started + 1 /\ last' = s /\ ses'[s].op = "delete"

Moves(s, from) == ses[s].pc = from /\ ses'[s] # ses[s]

Failed(response) == response # None /\ response.status = 503

\* C3: no step of a cycle up to and including its two fetches changes a
\* persisted Country or AppMetadata or leaves anything in the session to be
\* committed, and a cycle that ends in one of the fetches ends in failure.
C3_FetchFailureWritesNothing ==
  [][\A s \in Sessions :
       (RefreshBegins(s) \/ Moves(s, "fetch_rates")) =>
         /\ db' = db
         /\ meta' = meta
         /\ ses'[s].tx = NoTx
         /\ ses'[s].commits = 0
         /\ (ses'[s].pc = "idle" => Failed(ses'[s].response))]_vars

\* C3 witness: the second cycle failed in the exchange-rate fetch and what
\* the first cycle had committed is still there.
C3_Witness ==
  /\ started = 2
  /\ ses["s1"].pc = "idle"
  /\ Failed(ses["s1"].response)
  /\ ses["s1"].response.details = "exchange rate API"
  /\ db # {}
  /\ meta # None

\* C4: no step of the upsert loop, nor the metadata update after it, changes
\* the persisted state or commits, and a cycle that ends there ends in failure
\* with its session's writes discarded.
C4_UpsertFailureAborts ==
  [][\A s \in Sessions :
       Moves(s, "upsert") =>
         /\ db' = db
         /\ meta' = meta
         /\ ses'[s].commits = 0
         /\ (ses'[s].pc = "idle" =>
               Failed(ses'[s].response) /\ ses'[s].tx = NoTx)]_vars

\* C4 witness: a cycle failed in the second of its two upserts, the first
\* having returned, and nothing of it is persisted.
C4_Witness ==
  /\ ses["s1"].pc = "idle"
  /\ ses["s1"].op = "refresh"
  /\ Failed(ses["s1"].response)
  /\ ses["s1"].countries_data = <<Nameless, Nigeria>>
  /\ ses["s1"].i = 2
  /\ ses["s1"].commits = 0
  /\ db = {}
  /\ meta = None

FoldName(name) == [k \in 1..Len(name) |-> Fold(name[k])]

AllNamed(rows, list) == \A k \in 1..Len(list) : Named(rows, list[k].name) # {}

\* C5: a commit of the single client leaves a Country for every fetched name,
\* and when every fetched name was persisted already (as after one run with
\* the same records) it changes neither the persisted names nor the count.
C5_RepeatAddsNothing ==
  [][\A s \in Sessions :
       (ses[s].pc = "commit" /\ ses'[s].pc = "top") =>
         /\ AllNamed(db', ses[s].countries_data)
         /\ (AllNamed(db, ses[s].countries_data) =>
               /\ {FoldName(r.name) : r \in db'} = {FoldName(r.name) : r \in db}
               /\ Cardinality(db') = Cardinality(db))]_vars

\* C5 witness: the second cycle committed the records the first one stored
\* as Countries 1 and 2; no third key was handed out.
C5_Witness ==
  /\ started = 2
  /\ ses["s1"].pc = "top"
  /\ ses["s1"].countries_data = <<Nigeria, Togo>>
  /\ {<<r.id, r.name>> : r \in db} = {<<1, Nigeria.name>>, <<2, Togo.name>>}
  /\ nextId = 3

\* C6: the step after the commit, in which the image is generated, always
\* answers success with the number of fetched records and the cycle's
\* timestamp, and leaves the committed Countries and AppMetadata in place.
C6_ImageFailureIsSuccess ==
  [][\A s \in Sessions :
       Moves(s, "image") =>
         /\ ses'[s].pc = "idle"
         /\ ses'[s].response =
              [status |-> 200,
               total_countries |-> Len(ses[s].countries_data),
               last_refreshed_at |-> ses[s].refresh_time[1]]
         /\ ses'[s].commits = 1
         /\ db' = db
         /\ meta' = meta
         /\ meta = ses[s].refresh_time]_vars

\* C6 witness: a cycle answered success although no image was ever written.
C6_Witness ==
  /\ ses["s1"].pc = "idle"
  /\ ses["s1"].response # None
  /\ ses["s1"].response.status = 200
  /\ ses["s1"].response.total_countries = 2
  /\ image = None
  /\ Cardinality(db) = 2
  /\ meta # None

\* the record has no currency code, or the table has no rate or a zero rate
\* for it
NoRate(rec, rates) ==
  \/ rec.currencies = <<>>
  \/ rec.currencies[1].code = None
  \/ rec.currencies[1].code \notin DOMAIN rates
  \/ rates[rec.currencies[1].code] = 0

\* C7: once a cycle of the single client has committed, every fetched record
\* has a persisted Country of its name; the Country of a record without
\* currency code or usable rate has estimated_gdp 0, and no persisted
\* estimated_gdp is null.
C7_NoRecordSkipped ==
  \A s \in Sessions :
    ses[s].pc = "top" =>
      /\ \A k \in 1..Len(ses[s].countries_data) :
           LET list == ses[s].countries_data
               hit == Named(db, list[k].name)
           IN  /\ hit # {}
               /\ NoRate(list[LastOfName(list, k)], ses[s].exchange_rates) =>
                    \A r \in hit : r.estimated_gdp = Some(0)
      /\ \A r \in db : r.estimated_gdp # None

\* C7 witness: a committed cycle whose records have no currency (Togo) and a
\* currency without a rate in the table (NIGERIA, USD).
C7_Witness ==
  /\ ses["s1"].pc = "top"
  /\ ses["s1"].countries_data = <<Togo, NIGERIA>>
  /\ ses["s1"].exchange_rates = (NGN :> 0)
  /\ \E r \in db : r.name = Togo.name /\ r.currency_code = None
                     /\ r.estimated_gdp = Some(0)
  /\ \E r \in db : r.name = NIGERIA.name /\ r.currency_code = USD
                     /\ r.exchange_rate = None /\ r.estimated_gdp = Some(0)

\* the currency fields of the returned Country are as the claim says
CurrencyFieldsRight(e, rec, rates) ==
  LET code == IF rec.currencies = <<>> THEN None ELSE rec.currencies[1].code
  IN  /\ e.currency_code = code
      /\ e.exchange_rate =
           IF code # None /\ code \in DOMAIN rates THEN Some(rates[code]) ELSE None

\* C8 as claimed: the estimate lies in [population*1000/rate,
\* population*2000/rate), the upper bound excluded, whenever the rate is
\* present and not zero.
C8_AsClaimed ==
  call.entity # None =>
    LET e == call.entity[1]
    IN  /\ CurrencyFieldsRight(e, call.arg.country_data, call.arg.exchange_rates)
        /\ (e.exchange_rate # None /\ e.exchange_rate[1] # 0) =>
             /\ e.population * 1000 <= e.estimated_gdp[1] * e.exchange_rate[1]
             /\ e.estimated_gdp[1] * e.exchange_rate[1] < e.population * 2000

\* C8 amended: the same, with the upper bound included and the rate positive.
C8_UpsertFields ==
  call.entity # None =>
    LET e == call.entity[1]
    IN  /\ CurrencyFieldsRight(e, call.arg.country_data, call.arg.exchange_rates)
        /\ (e.exchange_rate # None /\ e.exchange_rate[1] > 0) =>
             /\ e.population * 1000 <= e.estimated_gdp[1] * e.exchange_rate[1]
             /\ e.estimated_gdp[1] * e.exchange_rate[1] <= e.population * 2000

\* C8 witness: Nigeria (population 2, NGN) against a table with NGN at 2.
C8_Witness ==
  /\ call # None
  /\ call.entity # None
  /\ call.arg.country_data = Nigeria
  /\ call.entity[1].currency_code = NGN
  /\ call.entity[1].exchange_rate = Some(2)
  /\ call.entity[1].estimated_gdp = Some(1500)

\* C9: a delete of a name no persisted Country carries answers not found and
\* changes no Country, nor AppMetadata.
C9_DeleteAbsentIsNoop ==
  [][\A s \in Sessions :
       (DeleteRuns(s) /\ Named(db, ses'[s].name) = {}) =>
         /\ ses'[s].response.status = 404
         /\ db' = db
         /\ meta' = meta]_vars

\* C9 witness: the third request, a delete of the name another delete had
\* just removed, answered not found.
C9_Witness ==
  /\ started = 3
  /\ last = "s2"
  /\ nextId = 2
  /\ db = {}
  /\ ses["s1"].op = "delete"
  /\ ses["s1"].response.status = 204
  /\ ses["s2"].op = "delete"
  /\ ses["s2"].name = ses["s1"].name
  /\ ses["s2"].response.status = 404

\* C10: a delete of a name some persisted Country carries answers success,
\* removes one Country, which carried the name, and leaves no Country of
\* that name in any spelling.
C10_DeleteRemoves ==
  [][\A s \in Sessions :
       (DeleteRuns(s) /\ Named(db, ses'[s].name) # {}) =>
         /\ ses'[s].response.status = 204
         /\ db' \subseteq db
         /\ Cardinality(db \ db') = 1
         /\ (db \ db') \subseteq Named(db, ses'[s].name)
         /\ Named(db', ses'[s].name) = {}]_vars
\* a step of a refresh cycle of session s, its first included
CycleStep(s) ==
  \/ RefreshBegins(s)
  \/ (ses[s].op = "refresh" /\ ses[s].pc # "idle" /\ ses'[s] # ses[s])

Fetched(list, name) == \E k \in 1..Len(list) : SameName(list[k].name, name)

\* C11: no step of a refresh cycle removes a Country (its key and name stay
\* persisted), a Country whose name is not among the fetched records is left
\* as it was, and a step after which a Country is gone is a delete.
C11_RefreshKeepsCountries ==
  [][/\ \A s \in Sessions :
          CycleStep(s) =>
            \A r \in db :
              /\ \E q \in db' : q.id = r.id /\ q.name = r.name
              /\ ~ Fetched(ses[s].countries_data, r.name) => r \in db'
     /\ (\E r \in db : \A q \in db' : q.id # r.id) =>
          \E s \in Sessions : DeleteRuns(s)]_vars

\* C11 witness: the second cycle fetched Togo only and committed; Nigeria,
\* stored by the first cycle at time 0, is still there as stored.
C11_Witness ==
  /\ started = 2
  /\ clock = 1
  /\ ses["s1"].pc = "top"
  /\ ses["s1"].countries_data = <<Togo>>
  /\ meta = Some(1)
  /\ \E r \in db : r.id = 1 /\ r.name = Nigeria.name /\ r.last_refreshed_at = 0
  /\ \E r \in db : r.id = 2 /\ r.name = Togo.name /\ r.last_refreshed_at = 1
\* the cycle of session s commits in this step
Commits(s) == ses[s].pc = "commit" /\ ses'[s].pc = "top"

StatusRuns(s) ==
  started' = started + 1 /\ last' = s /\ ses'[s].op = "status"

\* C12: the AppMetadata row (id 1) comes into being only by the commit of a
\* refresh cycle; a second INSERT of it is refused; every commit of a cycle
\* leaves it holding that cycle's timestamp, never null; once there it is
\* never removed; and the status handler reports its last_refreshed_at, or
\* nothing as long as there is no row.
C12_OneMetadataRow ==
  [][/\ (meta = None /\ meta' # None) => \E s \in Sessions : Commits(s)
     /\ meta # None => meta' # None
     /\ \A s \in Sessions :
          /\ Commits(s) => meta' # None /\ meta' = ses[s].refresh_time
          /\ (ses[s].pc = "commit" /\ ses'[s] # ses[s] /\ meta # None
                /\ ses[s].tx.metaw # None /\ ses[s].tx.metaw[1].op = "insert") =>
               ~ Commits(s) /\ meta' = meta
          /\ StatusRuns(s) =>
               /\ ses'[s].response.last_refreshed_at = meta
               /\ meta' = meta]_vars

\* C12 witness: a status request was answered without last_refreshed_at, and
\* afterwards a cycle committed and the row holds that cycle's timestamp.
C12_Witness ==
  /\ ses["s2"].op = "status"
  /\ ses["s2"].response.last_refreshed_at = None
  /\ ses["s2"].response.total_countries = 0
  /\ ses["s1"].op = "refresh"
  /\ ses["s1"].pc = "top"
  /\ meta # None
  /\ meta = ses["s1"].refresh_time
  /\ db # {}
\* C13: a cycle that ends in the country fetch is answered 503 naming the
\* country source, and a cycle that ends in the exchange-rate fetch is
\* answered 503 naming the exchange-rate source.
C13_FailingSourceNamed ==
  [][\A s \in Sessions :
       /\ (RefreshBegins(s) /\ ses'[s].pc = "idle") =>
            /\ Failed(ses'[s].response)
            /\ ses'[s].response.details = "restcountries API"
       /\ (Moves(s, "fetch_rates") /\ ses'[s].pc = "idle") =>
            /\ Failed(ses'[s].response)
            /\ ses'[s].response.details = "exchange rate API"]_vars
\* C14: the commit of a cycle writes the cycle's refresh_time to AppMetadata,
\* and the answer of the cycle, which is a success only from there, carries
\* the number of records fetched and that same refresh_time.
C14_CountAndTimestamp ==
  [][\A s \in Sessions :
       /\ Commits(s) =>
            /\ meta' = ses[s].refresh_time
            /\ ses'[s].refresh_time = ses[s].refresh_time
            /\ ses'[s].countries_data = ses[s].countries_data
       /\ (CycleStep(s) /\ ses'[s].pc = "idle" /\ ses'[s].response.status = 200) =>
            /\ ses[s].pc = "image"
            /\ ses'[s].response.total_countries = Len(ses[s].countries_data)
            /\ Some(ses'[s].response.last_refreshed_at) = ses[s].refresh_time]_vars

\* C14 witness: two records of one name were fetched at time 1; the answer
\* counts 2 although one Country is persisted, and carries the time written.
C14_Witness ==
  /\ ses["s1"].pc = "idle"
  /\ ses["s1"].op = "refresh"
  /\ ses["s1"].countries_data = <<Nigeria, NIGERIA>>
  /\ ses["s1"].response.status = 200
  /\ ses["s1"].response.total_countries = 2
  /\ ses["s1"].response.last_refreshed_at = 1
  /\ Cardinality(db) = 1
  /\ meta = Some(1)
\* the estimate is nothing exactly when the rate is nothing or 0
NothingIffNoRate(a, v) ==
  v = None <=> (a.exchange_rate = None \/ a.exchange_rate[1] = 0)

\* C15 as claimed: nothing iff the rate is nothing or 0, and for every other
\* rate a value in [p*1000/rate, p*2000/rate), the upper bound excluded.
C15_AsClaimed ==
  call.result # None =>
    LET a == call.arg
        v == call.result[1]
    IN  /\ NothingIffNoRate(a, v)
        /\ v # None =>
             /\ a.population * 1000 <= v[1] * a.exchange_rate[1]
             /\ v[1] * a.exchange_rate[1] < a.population * 2000

\* C15 amended: nothing iff the rate is nothing or 0, and for every rate
\* above zero a value in [p*1000/rate, p*2000/rate], the upper bound included.
C15_EstimateRange ==
  call.result # None =>
    LET a == call.arg
        v == call.result[1]
    IN  /\ NothingIffNoRate(a, v)
        /\ (v # None /\ a.exchange_rate[1] > 0) =>
             /\ a.population * 1000 <= v[1] * a.exchange_rate[1]
             /\ v[1] * a.exchange_rate[1] <= a.population * 2000

\* C15 witness: population 3 at rate 4 with the largest multiplier gives
\* 3 * 2000 / 4, the upper end of the range.
C15_Witness ==
  /\ call # None
  /\ call.result = Some(Some(1500))
  /\ call.arg.population = 3
  /\ call.arg.exchange_rate = Some(4)
  /\ call.arg.random_multiplier = 2000
\* C16: for an empty list the result is nothing; for any other list it is
\* the code of the first entry, the same as for the list of that entry alone.
C16_FirstCode ==
  call.result # None =>
    IF call.arg = <<>>
      THEN call.result = Some(None)
      ELSE /\ call.result = Some(call.arg[1].code)
           /\ call.result = Some(extract_currency_code(<<call.arg[1]>>))

\* C16 witness: a list of three entries whose first code is USD.
C16_Witness ==
  /\ call # None
  /\ call.arg = <<[code |-> USD], [code |-> NGN], [code |-> None]>>
  /\ call.result = Some(USD)
Upper(c) ==
  CASE c = "a" -> "A" [] c = "f" -> "F" [] c = "u" -> "U" [] c = "s" -> "S"
    [] c = "d" -> "D" [] c = "n" -> "N" [] c = "g" -> "G" [] OTHER -> c

\* the stored text is there and equals the filter ignoring case
EqualIgnoringCase(text, filter) ==
  /\ text # None
  /\ Len(text) = Len(filter)
  /\ \A k \in 1..Len(text) : Upper(text[k]) = Upper(filter[k])

\* the list holds each of the rows once, in the order the sort key asks for
ListsInOrder(list, rows, sort) ==
  /\ Range(list) = rows
  /\ Len(list) = Cardinality(rows)
  /\ \A j, k \in 1..Len(list) :
       j < k =>
         /\ sort = Some("population_desc") => list[j].population >= list[k].population
         /\ sort = Some("population_asc") => list[j].population <= list[k].population
         /\ sort = Some("gdp_desc") =>
              list[j].estimated_gdp[1] >= list[k].estimated_gdp[1]
         /\ sort = Some("gdp_asc") =>
              list[j].estimated_gdp[1] <= list[k].estimated_gdp[1]

\* C17 as claimed: a filter that is given, empty or not, keeps the entities
\* whose field equals it ignoring case.
C17_AsClaimed ==
  call.result # None =>
    LET a == call.arg
    IN  ListsInOrder(call.result[1],
                     {r \in a.rows :
                        /\ a.region # None => EqualIgnoringCase(r.region, a.region[1])
                        /\ a.currency # None =>
                             EqualIgnoringCase(r.currency_code, a.currency[1])},
                     a.sort)

\* C17 amended: the listing holds exactly the entities whose region and
\* currency_code equal the filters ignoring case, a filter that is left out
\* or empty keeping all, each once and in the order of the sort key.
C17_ListingFiltersAndSorts ==
  call.result # None =>
    LET a == call.arg
        on(param) == param # None /\ param[1] # <<>>
    IN  ListsInOrder(call.result[1],
                     {r \in a.rows :
                        /\ on(a.region) => EqualIgnoringCase(r.region, a.region[1])
                        /\ on(a.currency) =>
                             EqualIgnoringCase(r.currency_code, a.currency[1])},
                     a.sort)

\* C17 witness: populations 5, 50 and 1 listed by population_desc.
C17_Witness ==
  /\ call # None
  /\ call.arg.rows = {Listed1, Listed2, Listed3}
  /\ call.arg.region = None
  /\ call.arg.currency = None
  /\ call.arg.sort = Some("population_desc")
  /\ call.result = Some(<<Listed2, Listed1, Listed3>>)
\* C18: a cycle commits at most once, and only with every fetched record
\* upserted and the AppMetadata write pending; no other step of a cycle, an
\* upsert in particular, changes what is committed, which is all that
\* another session reads.
C18_OneCommitAtTheEnd ==
  [][\A s \in Sessions :
       CycleStep(s) =>
         /\ ses'[s].commits <= 1
         /\ Commits(s) =>
              /\ ses[s].commits = 0
              /\ ses[s].i = Len(ses[s].countries_data) + 1
              /\ ses[s].tx.metaw # None
              /\ Some(ses[s].tx.metaw[1].at) = ses[s].refresh_time
         /\ ~ Commits(s) =>
              /\ db' = db
              /\ meta' = meta
              /\ ses'[s].commits = ses[s].commits \/ RefreshBegins(s)]_vars

\* C18 witness: the second request, a status request of the other client,
\* counted no Country and saw no AppMetadata; the cycle begun before it has
\* committed its one Country since.
C18_Witness ==
  /\ started = 2
  /\ last = "s2"
  /\ ses["s2"].op = "status"
  /\ ses["s2"].response.total_countries = 0
  /\ ses["s2"].response.last_refreshed_at = None
  /\ ses["s1"].op = "refresh"
  /\ ses["s1"].pc = "top"
  /\ ses["s1"].commits = 1
  /\ Cardinality(db) = 1
  /\ meta # None
\* C19: the summary image changes only in the step of a cycle that follows
\* its commit and the query of the top Countries, the one that invokes the
\* generator; a cycle that is answered as failed ends in an earlier step,
\* and no step of it has changed the image.
C19_ImageOnlyAfterCommit ==
  [][/\ image' # image =>
          \E s \in Sessions : Moves(s, "image") /\ ses[s].commits = 1
     /\ \A s \in Sessions :
          /\ Moves(s, "image") => ses[s].commits = 1 /\ meta # None
          /\ (CycleStep(s) /\ ses'[s].pc = "idle" /\ Failed(ses'[s].response)) =>
               /\ ses[s].pc # "image"
               /\ image' = image]_vars

\* C19 witness: the first cycle drew the image at time 0; the second, at
\* time 1, failed with one upsert done and the image is still the first's.
C19_Witness ==
  /\ started = 2
  /\ clock = 1
  /\ ses["s1"].pc = "idle"
  /\ Failed(ses["s1"].response)
  /\ ses["s1"].i = 2
  /\ image # None
  /\ image[1].last_refreshed = 0
  /\ meta = Some(0)
\* C20: the list has 5 Countries, or all of them when fewer are persisted,
\* each a persisted Country and none twice; the estimates do not increase
\* along it; and no persisted Country left out has an estimate above that of
\* a listed one.
C20_TopFive ==
  call.result # None =>
    LET rows == call.arg
        top == call.result[1]
    IN  /\ Len(top) = IF Cardinality(rows) < 5 THEN Cardinality(rows) ELSE 5
        /\ Range(top) \subseteq rows
        /\ Cardinality(Range(top)) = Len(top)
        /\ \A k \in 1..(Len(top) - 1) :
             top[k].estimated_gdp[1] >= top[k + 1].estimated_gdp[1]
        /\ \A r \in rows \ Range(top) :
             ~ \E k \in 1..Len(top) :
                 r.estimated_gdp[1] > top[k].estimated_gdp[1]

\* C20 witness: of seven Countries with estimates 7500, 5000, 2500, 0, 7500,
\* 5000, 2500 the list holds five, from 7500 down to one of the two of 2500.
C20_Witness ==
  /\ call # None
  /\ call.arg = {Ranked(k) : k \in 1..7}
  /\ call.result # None
  /\ [k \in 1..Len(call.result[1]) |-> call.result[1][k].estimated_gdp[1]]
       = <<7500, 7500, 5000, 5000, 2500>>
  /\ call.result[1][5] = Ranked(7)
\* C21: a cycle sends at most one request to each source, none to the
\* exchange-rate source before the country source has answered, and a cycle
\* that ends in the country fetch has sent none to the exchange-rate source;
\* a cycle that ends in the exchange-rate fetch has sent one to each.
C21_NoRetryNoSecondFetch ==
  [][\A s \in Sessions :
       CycleStep(s) =>
         /\ ses'[s].gets.countries = 1
         /\ ses'[s].gets.rates <= 1
         /\ ses'[s].gets.rates >= ses[s].gets.rates \/ RefreshBegins(s)
         /\ (RefreshBegins(s) /\ ses'[s].pc = "idle") =>
              Failed(ses'[s].response) /\ ses'[s].gets.rates = 0
         /\ (RefreshBegins(s) /\ ses'[s].pc # "idle") => ses'[s].gets.rates = 0
         /\ Moves(s, "fetch_rates") => ses'[s].gets.rates = 1
         /\ (~ RefreshBegins(s) /\ ses[s].pc # "fetch_rates") =>
              ses'[s].gets = ses[s].gets]_vars

\* C21 witness: after a cycle that committed, the next one failed in the
\* country fetch: one request to the country source, none for the rates.
C21_Witness ==
  /\ started = 2
  /\ ses["s1"].pc = "idle"
  /\ ses["s1"].op = "refresh"
  /\ Failed(ses["s1"].response)
  /\ ses["s1"].response.details = "restcountries API"
  /\ ses["s1"].gets = [countries |-> 1, rates |-> 0]
  /\ db # {}
\* C22: a cycle that is answered as failed has committed nothing, so the
\* Countries and the AppMetadata are as they were when it began.
C22_FailedMeansNothingCommitted ==
  [][\A s \in Sessions :
       (CycleStep(s) /\ ses'[s].pc = "idle" /\ Failed(ses'[s].response)) =>
         /\ ses'[s].commits = 0
         /\ db' = db
         /\ meta' = meta]_vars
\* C23: the last_refreshed_at of the AppMetadata row never goes back: no
\* step leaves it smaller than it was.
C23_TimestampNeverDecreases ==
  [][(meta # None /\ meta' # None) => meta'[1] >= meta[1]]_vars
\* C24: when a stored Country carries the record's name in some case, the
\* call returns that Country with its key and its name as stored, the other
\* eight attributes as derived from the record, and the session holds as
\* many Countries as before, the others as they were.
C24_UpdateKeepsKeyAndName ==
  call.entity # None =>
    LET a == call.arg
        e == call.entity[1]
    IN  \A old \in Named(a.rows, a.country_data.name) :
          /\ e.id = old.id
          /\ e.name = old.name
          /\ DerivedFrom(e, a.country_data, a.exchange_rates)
          /\ e.last_refreshed_at = clock
          /\ call.after[1] = (a.rows \ {old}) \cup {e}

\* C24 witness: the record "Ng" met the stored "NG" with key 1: the Country
\* returned is number 1, still named "NG", with the capital of the record,
\* and it is the only one.
C24_Witness ==
  /\ call # None
  /\ call.arg.country_data = Nigeria
  /\ call.arg.rows = {OldNigeria}
  /\ call.entity # None
  /\ call.entity[1].id = 1
  /\ call.entity[1].name = <<"N", "G">>
  /\ call.entity[1].capital = Some("Abuja")
  /\ call.entity[1].last_refreshed_at = 1
  /\ call.after = Some({call.entity[1]})
====
